---- MODULE Spec2Model ----
(***************************************************************************)
(* Model of the node-based rules engine of src/evaluate_rules/main.py:     *)
(* the scheduler (get_rules), the graph walk (execute_rule and the node    *)
(* executors) and the evaluation entry point (evaluate_rules), run by two  *)
(* concurrent invocations against one rules collection.                    *)
(***************************************************************************)
EXTENDS Integers, Sequences, FiniteSets, TLC

VARIABLES
    now,                \* wall clock, in seconds (datetime.now())
    rules,              \* the Firestore collection 'rules': rule id -> document
    telemetry,          \* mqtt_values/<collection>/messages: latest value per collection
    pc,                 \* position of each invocation of evaluate_rules
    snapshot,           \* rules_ref of get_rules: the documents as read at line 270
    todo,               \* documents of rules_ref the loop of get_rules has not visited
    selected,           \* the list `rules` built by get_rules
    current_node,       \* current_node of execute_rule (a node id)
    execution_context,  \* self.execution_context
    results,            \* the list `results` of execute_rule (the trace)
    overflow,           \* results holds only the first MaxTrace entries of this run
    dispatched,         \* publisher.publish calls of the current run, with their outcome
    responses,          \* what the store or the dispatcher answered to each node of the run
    status,             \* 'status' of the response of evaluate_rules ("" before it responds)
    ingested,           \* the value of the last message the ingestor stored, per MQTT topic
    received,           \* the payload shapes of the first messages _on_message handled
    request,            \* the topic parameter of the request the invocation serves (<<>>: none)
    effects,            \* the emails sent and todos added by the action executor, in order
    reply,              \* the last response of action_handler, with the request it answers
    logic,              \* 'logic' of the rule document in its tree form (NoLogic: none)
    tree_results,       \* the list `results` of the tree engine's evaluate_all_rules
    tasks,              \* the documents of the tasks collection, by document id
    out                 \* the list `results` of evaluate_all_rules

vars == <<now, rules, telemetry, pc, snapshot, todo, selected, current_node,
          execution_context, results, overflow, dispatched, responses, status, ingested,
          received, request, effects, reply, logic, tree_results, tasks, out>>

\* ------------------------------------------------------------------ bounds
MaxTime == 3
MaxTrace == 6

MaxEffects == 2
MaxMessages == 2

\* ------------------------------------------------------- program constants
DefaultInterval == 3600

Passes == {"a", "b"}

\* ------------------------------------------------------------------ values
\* A Python value: None, an int, a bool (an int in comparisons) or a str.
None == [k |-> "none", n |-> 0, s |-> ""]
IntV(i) == [k |-> "int", n |-> i, s |-> ""]
BoolV(b) == [k |-> "bool", n |-> IF b THEN 1 ELSE 0, s |-> ""]
StrV(x) == [k |-> "str", n |-> 0, s |-> x]

IsNum(v) == v.k \in {"int", "bool"}

\* bool(v)
Truthy(v) ==
    CASE v.k = "none" -> FALSE
      [] IsNum(v) -> v.n # 0
      [] OTHER -> v.s # ""

\* x == y
PyEq(x, y) ==
    \/ IsNum(x) /\ IsNum(y) /\ x.n = y.n
    \/ x.k = "str" /\ y.k = "str" /\ x.s = y.s
    \/ x.k = "none" /\ y.k = "none"

\* The strings of the model in code point order, for str < str.
StrOrder == <<"", "5", "abc", "c", "g", "p", "published">>
StrRank(x) == CHOOSE i \in DOMAIN StrOrder : StrOrder[i] = x

\* x < y is defined (no TypeError)
Orderable(x, y) == (IsNum(x) /\ IsNum(y)) \/ (x.k = "str" /\ y.k = "str")
PyLess(x, y) == IF IsNum(x) THEN x.n < y.n ELSE StrRank(x.s) < StrRank(y.s)

\* y in x, for x and y among the strings of StrOrder
PyIn(y, x) == y.s = "" \/ y.s = x.s \/ <<y.s, x.s>> \in {<<"c", "abc">>, <<"p", "published">>}

Operations == {">", ">=", "<", "<=", "==", "!=", "contains", "not_contains"}

\* NodeResult; details is kept by its 'error' entry ("" when it has none)
NodeResult(success, value, error) == [success |-> success, value |-> value, error |-> error]

\* ------------------------------------------------------------------- nodes
\* A node dict of a rule document. Fields a node type does not use are empty.
NodeDict(type, next) ==
    [type |-> type, topic |-> <<>>, input1 |-> None, input2 |-> None, operator |-> "",
     inputs |-> <<>>, action |-> "", next |-> next, next_true |-> <<>>, next_false |-> <<>>]

NodeTypes == {"get_data", "compare", "and", "or", "publish", "end"}

\* Node.from_dict raises ValueError on a type that NodeType does not name
from_dict_raises(nodes) == \E id \in DOMAIN nodes : nodes[id].type \notin NodeTypes

\* _safe_topic_id: '/' and '.' become '_', '#' becomes 'hash', '+' becomes 'plus'
RECURSIVE safe_topic_id(_)
safe_topic_id(topic) ==
    IF topic = <<>> THEN <<>>
    ELSE LET ch == Head(topic)
             to == CASE ch \in {"/", "."} -> <<"_">>
                     [] ch = "#" -> <<"h", "a", "s", "h">>
                     [] ch = "+" -> <<"p", "l", "u", "s">>
                     [] OTHER -> <<ch>>
         IN to \o safe_topic_id(Tail(topic))

\* get_latest_value: the newest value of the topic's collection; None when the
\* collection is empty, and None when the store raises (up = FALSE)
get_latest_value(topic, up) ==
    IF up /\ safe_topic_id(topic) \in DOMAIN telemetry
    THEN telemetry[safe_topic_id(topic)]
    ELSE None

GetDataAlwaysSucceeds(node, up) ==
    IF node.topic = <<>>
    THEN NodeResult(FALSE, None, "No topic specified")
    ELSE NodeResult(TRUE, get_latest_value(node.topic, up), "")

GetDataFailsOnFalsy(node, up) ==
    IF node.topic = <<>>
    THEN NodeResult(FALSE, None, "No topic specified")
    ELSE LET value == get_latest_value(node.topic, up)
         IN NodeResult(Truthy(value), value, "")

execute_get_data_node(node, up) ==
    IF node.topic = <<>>
    THEN NodeResult(FALSE, None, "No topic specified")
    ELSE LET value == get_latest_value(node.topic, up)
         IN NodeResult(value # None, value, "")

ResolveLiteral(ctx, ref) == ref

\* input1/input2: the context's value when the input is a key of it, else the literal
Resolve(ctx, ref) == IF ref.k = "str" /\ ref.s \in DOMAIN ctx THEN ctx[ref.s] ELSE ref

UnknownOperatorIsFalse(op) == NodeResult(TRUE, BoolV(FALSE), "")

\* Operation(op) raises ValueError on a symbol the enum does not name (line 117);
\* the except of line 144 turns it into a failure
UnknownOperator(op) == NodeResult(FALSE, None, "ValueError")

execute_compare_node(node, ctx) ==
    LET x == Resolve(ctx, node.input1)
        y == Resolve(ctx, node.input2)
        op == node.operator
    IN  IF op \notin Operations
        THEN UnknownOperator(op)
        ELSE IF op \in {">", ">=", "<", "<="}
        THEN IF ~Orderable(x, y)
             THEN NodeResult(FALSE, None, "TypeError")
             ELSE NodeResult(TRUE,
                             BoolV(CASE op = ">" -> PyLess(y, x)
                                     [] op = ">=" -> ~PyLess(x, y)
                                     [] op = "<" -> PyLess(x, y)
                                     [] OTHER -> ~PyLess(y, x)),
                             "")
        ELSE IF op \in {"==", "!="}
        THEN NodeResult(TRUE, BoolV(PyEq(x, y) <=> (op = "==")), "")
        ELSE IF x.k # "str" \/ y.k # "str"
        THEN NodeResult(FALSE, None, "TypeError")
        ELSE NodeResult(TRUE, BoolV(PyIn(y, x) <=> (op = "contains")), "")

CtxGetMissingTrue(ctx, id) == IF id \in DOMAIN ctx THEN ctx[id] ELSE BoolV(TRUE)

\* execution_context.get(input_id): None for a missing key
CtxGet(ctx, id) == IF id \in DOMAIN ctx THEN ctx[id] ELSE None

execute_logical_node(node, ctx) ==
    LET input_values == [i \in DOMAIN node.inputs |-> CtxGet(ctx, node.inputs[i])]
    IN  IF node.type = "and"
        THEN NodeResult(TRUE, BoolV(\A i \in DOMAIN input_values : Truthy(input_values[i])), "")
        ELSE NodeResult(TRUE, BoolV(\E i \in DOMAIN input_values : Truthy(input_values[i])), "")

\* publisher.publish(...) then future.result(); accepted = FALSE when either raises
execute_publish_node(node, accepted) ==
    IF accepted THEN NodeResult(TRUE, StrV("published"), "")
    ELSE NodeResult(FALSE, None, "publish failed")

\* execute_node without its write to the context (see execute_step)
execute_node(node, ctx, up, accepted) ==
    CASE node.type = "get_data" -> execute_get_data_node(node, up)
      [] node.type = "compare" -> execute_compare_node(node, ctx)
      [] node.type \in {"and", "or"} -> execute_logical_node(node, ctx)
      [] node.type = "publish" -> execute_publish_node(node, accepted)
      [] node.type = "end" -> NodeResult(TRUE, None, "")
      [] OTHER -> NodeResult(FALSE, None, "Unknown node type")

TriggeredAnyType(trace) == \E i \in DOMAIN trace : trace[i].result = StrV("published")

\* 'triggered' of the result of execute_rule (line 251)
Triggered(trace) ==
    \E i \in DOMAIN trace : trace[i].type = "publish" /\ trace[i].result = StrV("published")

\* The dict execute_rule returns: with node_results (line 248), or with error (line 258)
RunResult(rule, trace) ==
    [rule_id |-> rule.id, triggered |-> Triggered(trace), error |-> "", node_results |-> trace]
ErrorResult(rule, e) ==
    [rule_id |-> rule.id, triggered |-> FALSE, error |-> e, node_results |-> <<>>]

\* ---------------------------------------------------- rule documents
\* last_run as stored: "naive" is an ISO string without offset (what get_rules
\* writes), "aware" one with an offset (the ActionFlow default), "missing" no field.
LastRun(kind, t) == [kind |-> kind, t |-> t]

RuleDoc(id, enabled, has_interval, interval, last_run, start_node, nodes) ==
    [id |-> id, enabled |-> enabled, has_interval |-> has_interval, interval |-> interval,
     last_run |-> last_run, start_node |-> start_node, nodes |-> nodes]

RuleIds == {"r1", "r2"}
RuleOrder == <<"r1", "r2">>

Topic == <<"s", "/", "t">>

GetData(next) == [NodeDict("get_data", next) EXCEPT !.topic = Topic]
Compare(next_true, next_false) ==
    [NodeDict("compare", <<>>) EXCEPT !.input1 = StrV("g"), !.input2 = IntV(30),
                                      !.operator = ">", !.next_true = next_true,
                                      !.next_false = next_false]
Publish(next) == [NodeDict("publish", next) EXCEPT !.action = "email"]
End == NodeDict("end", <<>>)

\* The graphs over the nodes g (GET_DATA), c (COMPARE g > 30), p (PUBLISH email) and
\* e (END), by their successor lists.
Wired(g_next, c_true, c_false, p_next) ==
    [id \in {"g", "c", "p", "e"} |->
        CASE id = "g" -> GetData(g_next)
          [] id = "c" -> Compare(c_true, c_false)
          [] id = "p" -> Publish(p_next)
          [] OTHER -> End]

\* GET_DATA(topic T) -> COMPARE(> 30) -> {next_true: PUBLISH(email), next_false: END} -> END
ExampleGraph == Wired(<<"c">>, <<"p">>, <<"e">>, <<"e">>)

\* rule_data.get('interval', 3600)
IntervalOf(doc) == IF doc.has_interval THEN doc.interval ELSE DefaultInterval

\* ------------------------------------------------------------ tree engine
\* (src/evaluate_rules/main copy.py) A rule of the tree form holds in 'logic' an
\* AND/OR expression over conditions (topic, operation, value).
Condition(topic, operation, value) == [topic |-> topic, operation |-> operation, value |-> value]
LogicalExpression(operator, operands) == [operator |-> operator, operands |-> operands]
NoLogic == LogicalExpression("", <<>>)

\* RulesEngine.get_latest_value: the same query as the graph engine's, but a
\* falsy value of the newest document is answered as None
RulesEngine_get_latest_value(topic, up) ==
    LET last_message == get_latest_value(topic, up)
    IN IF Truthy(last_message) THEN last_message ELSE None

\* int(s) of the strings that are decimal numerals; int of any other raises ValueError
StrInts == ("5" :> 5) @@ ("20" :> 20) @@ ("35" :> 35)

\* str(v) of an int
ToStr(v) == CHOOSE s \in DOMAIN StrInts : StrInts[s] = v.n

\* The conversion of lines 158-163 raised ValueError or TypeError
ConversionFailed == [k |-> "failed", n |-> 0, s |-> ""]

\* latest_value after lines 158-163: a string is converted to the type of the
\* condition's value, and a value that is not a string to a string when the
\* condition's value is one
Convert(latest_value, value) ==
    IF latest_value.k = "str" /\ value.k # "str"
    THEN CASE value.k = "int" -> IF latest_value.s \in DOMAIN StrInts
                                 THEN IntV(StrInts[latest_value.s])
                                 ELSE ConversionFailed
           [] value.k = "bool" -> BoolV(latest_value.s # "")
           [] OTHER -> ConversionFailed
    ELSE IF value.k = "str" /\ latest_value.k # "str"
    THEN StrV(ToStr(latest_value))
    ELSE latest_value

\* op_func(latest_value, condition.value) of line 176; a TypeError it raises is
\* caught at line 188 and the condition is false
op_func(op, x, y) ==
    CASE op = ">" -> Orderable(x, y) /\ PyLess(y, x)
      [] op = ">=" -> Orderable(x, y) /\ ~PyLess(x, y)
      [] op = "<" -> Orderable(x, y) /\ PyLess(x, y)
      [] op = "<=" -> Orderable(x, y) /\ ~PyLess(y, x)
      [] op = "==" -> PyEq(x, y)
      [] op = "!=" -> ~PyEq(x, y)
      [] op = "contains" -> x.k = "str" /\ y.k = "str" /\ PyIn(y, x)
      [] OTHER -> x.k = "str" /\ y.k = "str" /\ ~PyIn(y, x)

\* 'result' of the dict evaluate_condition returns; up: the store answered the read
evaluate_condition(condition, up) ==
    LET latest_value == RulesEngine_get_latest_value(condition.topic, up)
        converted == Convert(latest_value, condition.value)
    IN /\ latest_value # None
       /\ condition.operation \in Operations
       /\ converted # ConversionFailed
       /\ op_func(condition.operation, converted, condition.value)

\* 'result' of the dict evaluate_expression returns, on an expression whose
\* operands are conditions: all(results) for AND, any(results) for OR, and False
\* for another operator (the ValueError of line 222 is caught at line 230)
evaluate_expression(expr, ups) ==
    CASE expr.operator = "AND" ->
             \A i \in DOMAIN expr.operands : evaluate_condition(expr.operands[i], ups[i])
      [] expr.operator = "OR" ->
             \E i \in DOMAIN expr.operands : evaluate_condition(expr.operands[i], ups[i])
      [] OTHER -> FALSE

\* ------------------------------------------------------- action executor
\* A request to action_handler: the 'action' of its JSON body ("" when it has
\* none) and the keys of its 'action_data' ({} when it has none)
NoReply == [code |-> 0, action |-> "", keys |-> {}]

process_rule_unchecked(action, keys) ==
    CASE action = "email" -> "email"
      [] action = "add_todo" -> "add_todo"
      [] OTHER -> "ValueError"

\* process_rule: the helper it calls (send_email, add_todo), or the ValueError
\* it raises
process_rule(action, keys) ==
    CASE action = "email" -> IF {"to", "body"} \subseteq keys THEN "email" ELSE "ValueError"
      [] action = "add_todo" -> IF "body" \in keys THEN "add_todo" ELSE "ValueError"
      [] OTHER -> "ValueError"

\* RulesEngine.evaluate_rule of the tree engine on the rule's logic, appended to
\* the results of evaluate_all_rules (lines 259-268, 286-289); ups: whether the
\* store answered the read of each condition
evaluate_rule ==
    /\ logic # NoLogic
    /\ tree_results = <<>>
    /\ \E ups \in [DOMAIN logic.operands -> BOOLEAN] :
        tree_results' = Append(tree_results,
                               [triggered |-> evaluate_expression(logic, ups),
                                answered |-> \A i \in DOMAIN ups : ups[i]])
    /\ UNCHANGED <<now, rules, telemetry, pc, snapshot, todo, selected, current_node,
                   execution_context, results, overflow, dispatched, responses, status,
                   ingested, received, request, effects, reply, logic, tasks, out>>

\* ------------------------------------------------------------- task API
\* (src/backend/models.py, src/backend/routers/todo_router.py) A datetime is a
\* day and whether it carries the UTC offset; its ISO text is the day's text
\* followed by the offset's.
DateTime(day, utc) == [day |-> day, utc |-> utc]
isoformat(d) == <<d.day, IF d.utc THEN "+00:00" ELSE "">>
fromisoformat(text) == DateTime(text[1], text[2] = "+00:00")

\* A Task object (title, description and source are text the handlers copy)
Task(document_id, dueDate, priority, completed) ==
    [document_id |-> document_id, dueDate |-> dueDate, priority |-> priority,
     completed |-> completed]

\* A document of the tasks collection: the keys Task.to_dict writes, and
\* 'completed' when an update wrote it
TaskDoc(document_id, dueDate, priority, has_completed, completed) ==
    [document_id |-> document_id, dueDate |-> dueDate, priority |-> priority,
     has_completed |-> has_completed, completed |-> completed]

\* Task.to_dict: the dict has no 'completed' key
to_dict(t) == TaskDoc(t.document_id, isoformat(t.dueDate), t.priority, FALSE, FALSE)

\* Task.from_dict: 'completed' is not passed to the constructor and takes its
\* default, False
from_dict(data) ==
    Task(data.document_id, fromisoformat(data.dueDate), data.priority, FALSE)

\* create_task: the new task gets a fresh document id and is stored as to_dict
\* gives it
create_task(document_id, dueDate, priority, completed) ==
    /\ document_id \notin DOMAIN tasks
    /\ tasks' = (document_id :> to_dict(Task(document_id, dueDate, priority, completed)))
                    @@ tasks
    /\ UNCHANGED <<now, rules, telemetry, pc, snapshot, todo, selected, current_node,
                   execution_context, results, overflow, dispatched, responses, status,
                   ingested, received, request, effects, reply, logic, tree_results, out>>

\* complete_task on an existing task (on a missing one it answers 404 and
\* writes nothing): update({"completed": True})
complete_task(document_id) ==
    /\ document_id \in DOMAIN tasks
    /\ tasks' = [tasks EXCEPT ![document_id].has_completed = TRUE,
                              ![document_id].completed = TRUE]
    /\ UNCHANGED <<now, rules, telemetry, pc, snapshot, todo, selected, current_node,
                   execution_context, results, overflow, dispatched, responses, status,
                   ingested, received, request, effects, reply, logic, tree_results, out>>

\* update_priority on an existing task
update_priority(document_id, new_priority) ==
    /\ document_id \in DOMAIN tasks
    /\ tasks' = [tasks EXCEPT ![document_id].priority = new_priority]
    /\ UNCHANGED <<now, rules, telemetry, pc, snapshot, todo, selected, current_node,
                   execution_context, results, overflow, dispatched, responses, status,
                   ingested, received, request, effects, reply, logic, tree_results, out>>

\* delete_task on an existing task
delete_task(document_id) ==
    /\ document_id \in DOMAIN tasks
    /\ tasks' = [id \in DOMAIN tasks \ {document_id} |-> tasks[id]]
    /\ UNCHANGED <<now, rules, telemetry, pc, snapshot, todo, selected, current_node,
                   execution_context, results, overflow, dispatched, responses, status,
                   ingested, received, request, effects, reply, logic, tree_results, out>>

\* The Task get_task answers for an existing document
get_task(document_id) == from_dict(tasks[document_id])

\* The Tasks get_tasks answers without a source filter
get_tasks == {from_dict(tasks[id]) : id \in DOMAIN tasks}

\* The dict get_task_stats answers
WeekDays == 7
get_task_stats ==
    LET all == {from_dict(tasks[id]) : id \in DOMAIN tasks}
        Count(S) == Cardinality(S)
    IN [Completed |-> Count({t \in all : t.completed}),
        Due_Today |-> Count({t \in all : t.dueDate.day = now}),
        Due_This_Week |-> Count({t \in all : /\ t.dueDate.day # now
                                              /\ t.dueDate.day <= now + WeekDays}),
        Due_Later |-> Count({t \in all : t.dueDate.day > now + WeekDays}),
        Low |-> Count({t \in all : t.priority = "Low"}),
        Medium |-> Count({t \in all : t.priority = "Medium"}),
        High |-> Count({t \in all : t.priority = "High"})]

\* ------------------------------------------------------------ scheduler
IsDueIgnoringEnabled(doc) == now - doc.last_run.t >= IntervalOf(doc)
IsDueStrict(doc) == doc.enabled /\ now - doc.last_run.t > IntervalOf(doc)
IsDueIgnoringInterval(doc) == doc.enabled

\* The test of line 278 on a document whose last_run parsed
IsDue(doc) == doc.enabled /\ now - doc.last_run.t >= IntervalOf(doc)

ParseNeverRaises(doc) == FALSE

\* Lines 276-278 raise: fromisoformat(None), or naive now minus an aware last_run
ParseRaises(doc) == doc.last_run.kind # "naive"

StatusByResults(rule_results) ==
    IF \E i \in DOMAIN rule_results : rule_results[i].error # "" THEN "error" ELSE "success"

\* 'status' of the dict evaluate_rules returns at line 319
StatusOf(rule_results) == "success"

\* evaluate_rules -> evaluate_all_rules -> get_rules, to the read of line 270, on
\* a request whose query carries the parameter topic (never read by the code).
\* NodeBasedRulesEngine() raising (built = FALSE) is caught at line 325: the
\* response has status error. A read that raises (ok = FALSE) leaves the list
\* of rules empty.
Serve(p, topic) ==
    /\ pc[p] \in {"idle", "done"}
    /\ request' = [request EXCEPT ![p] = topic]
    /\ \E built \in BOOLEAN, ok \in BOOLEAN :
        /\ snapshot' = [snapshot EXCEPT ![p] = IF built THEN rules ELSE <<>>]
        /\ todo' = [todo EXCEPT ![p] = IF built /\ ok THEN RuleOrder ELSE <<>>]
        /\ pc' = [pc EXCEPT ![p] = IF ~built THEN "done" ELSE IF ok THEN "select" ELSE "execute"]
        /\ status' = [status EXCEPT ![p] = IF built THEN "" ELSE "error"]
    /\ selected' = [selected EXCEPT ![p] = <<>>]
    /\ out' = [out EXCEPT ![p] = <<>>]
    /\ results' = [results EXCEPT ![p] = <<>>]
    /\ dispatched' = [dispatched EXCEPT ![p] = <<>>]
    /\ responses' = [responses EXCEPT ![p] = <<>>]
    /\ overflow' = [overflow EXCEPT ![p] = FALSE]
    /\ execution_context' = [execution_context EXCEPT ![p] = [x \in {} |-> None]]
    /\ UNCHANGED <<now, rules, current_node, effects, reply, logic, tree_results,
                   tasks>>

\* A request to the evaluation endpoint from outside the ingestor (the schedule)
evaluate_rules(p) ==
    /\ Serve(p, <<>>)
    /\ UNCHANGED <<telemetry, ingested, received>>

\* MQTTFirestoreIngestor._safe_topic_id: '/' and '.' become '_'
RECURSIVE ingestor_safe_topic_id(_)
ingestor_safe_topic_id(topic) ==
    IF topic = <<>> THEN <<>>
    ELSE (IF Head(topic) \in {"/", "."} THEN <<"_">> ELSE <<Head(topic)>>)
            \o ingestor_safe_topic_id(Tail(topic))

StoreNothing(store, topic, value) == store

\* The collection of the store after messages.add(doc_data) (ingest.py, 164-168)
StoreMessage(store, topic, value) == (ingestor_safe_topic_id(topic) :> value) @@ store

\* The payload of a message by its shape: a JSON object with 'value' and
\* 'immediate', text that is not JSON, JSON that is not an object, an object
\* without 'value', an object without 'immediate'
PayloadShapes == {"ok", "not_json", "not_object", "no_value", "no_immediate"}

ValidPayloadLax(payload) == payload \in {"ok", "no_immediate"}

\* Lines 135-150: json.loads and the test of line 139 raise on every shape but
\* the first, and the callback returns
ValidPayload(payload) == payload = "ok"

\* MQTTFirestoreIngestor._on_message on a message of the given topic and payload.
\* A payload that is not valid is dropped; a store write that raises
\* (stored = FALSE) ends the callback at line 179. With immediate set,
\* _evaluate_rules sends the GET request the invocation p of evaluate_rules
\* serves.
on_message(p, topic, value, immediate, payload) ==
    /\ received' = IF Len(received) < MaxMessages THEN Append(received, payload)
                   ELSE received
    /\ \E stored \in BOOLEAN :
        IF ValidPayload(payload) /\ stored
        THEN /\ telemetry' = StoreMessage(telemetry, topic, value)
             /\ ingested' = (topic :> value) @@ ingested
             /\ IF immediate
                THEN Serve(p, topic)
                ELSE UNCHANGED <<now, rules, pc, snapshot, todo, selected, current_node,
                                 execution_context, results, overflow, dispatched,
                                 responses, status, request, effects, reply, logic,
                                 tree_results, tasks, out>>
        ELSE UNCHANGED <<now, rules, telemetry, pc, snapshot, todo, selected,
                         current_node, execution_context, results, overflow,
                         dispatched, responses, status, ingested, request, effects,
                         reply, logic, tree_results, tasks, out>>

UpdateResettingInterval(doc, t) ==
    [doc EXCEPT !.last_run = LastRun("naive", t), !.has_interval = FALSE]

\* rule_doc.reference.update({'last_run': datetime.now().isoformat()}) (line 283)
UpdateLastRun(doc, t) == [doc EXCEPT !.last_run = LastRun("naive", t)]

\* One iteration of the loop of get_rules (lines 272-288) on the next document.
\* The update of line 283 raising (ok = FALSE) is caught at line 286, after the
\* append of line 281.
get_rules(p) ==
    /\ pc[p] = "select"
    /\ todo[p] # <<>>
    /\ LET id == Head(todo[p])
           doc == snapshot[p][id]
           take == ~ParseRaises(doc) /\ IsDue(doc)
       IN /\ selected' = [selected EXCEPT ![p] = IF take THEN Append(@, doc) ELSE @]
          /\ \E ok \in BOOLEAN :
                rules' = IF take /\ ok
                         THEN [rules EXCEPT ![id] = UpdateLastRun(@, now)]
                         ELSE rules
    /\ todo' = [todo EXCEPT ![p] = Tail(@)]
    /\ pc' = [pc EXCEPT ![p] = IF Tail(todo[p]) = <<>> THEN "execute" ELSE "select"]
    /\ UNCHANGED <<now, telemetry, snapshot, current_node, execution_context, results,
                   overflow, dispatched, responses, status, ingested, received, request,
                   effects, reply, logic, tree_results, tasks, out>>

\* ------------------------------------------------------------ graph walk
\* The rule execute_rule is running, or ran last
RuleAt(p, i) == selected[p][i]
Running(p) == RuleAt(p, Len(out[p]) + 1)

ReturnRaising(p, result) ==
    /\ out' = [out EXCEPT ![p] = IF result.error = "" THEN Append(@, result) ELSE @]
    /\ pc' = [pc EXCEPT ![p] = IF result.error = "" THEN "execute" ELSE "done"]

\* execute_rule returns: evaluate_all_rules appends the result (line 302)
Return(p, result) ==
    /\ out' = [out EXCEPT ![p] = Append(@, result)]
    /\ pc' = [pc EXCEPT ![p] = "execute"]

KeptContext(ctx) == ctx

\* self.execution_context = {} (line 219)
NewContext(ctx) == [x \in {} |-> None]

\* execute_rule, lines 218-222
execute_rule(p) ==
    /\ pc[p] = "execute"
    /\ Len(out[p]) < Len(selected[p])
    /\ LET rule == Running(p)
       IN /\ execution_context' = [execution_context EXCEPT ![p] = NewContext(@)]
          /\ results' = [results EXCEPT ![p] = <<>>]
          /\ dispatched' = [dispatched EXCEPT ![p] = <<>>]
          /\ responses' = [responses EXCEPT ![p] = <<>>]
          /\ overflow' = [overflow EXCEPT ![p] = FALSE]
          /\ IF from_dict_raises(rule.nodes)
             THEN Return(p, ErrorResult(rule, "ValueError")) /\ UNCHANGED current_node
             ELSE IF rule.start_node \notin DOMAIN rule.nodes
             THEN Return(p, ErrorResult(rule, "KeyError")) /\ UNCHANGED current_node
             ELSE /\ current_node' = [current_node EXCEPT ![p] = rule.start_node]
                  /\ pc' = [pc EXCEPT ![p] = "walk"]
                  /\ UNCHANGED out
    /\ UNCHANGED <<now, rules, telemetry, snapshot, todo, selected, status, ingested,
                   received, request, effects, reply, logic, tree_results, tasks>>

NextNodesSwapped(node, result) ==
    IF node.type = "compare"
    THEN IF Truthy(result.value) THEN node.next_false ELSE node.next_true
    ELSE node.next

NextNodesPreferringNext(node, result) ==
    IF node.next # <<>> THEN node.next
    ELSE IF Truthy(result.value) THEN node.next_true ELSE node.next_false

\* The successor list of lines 237-241
NextNodes(node, result) ==
    IF node.type = "compare"
    THEN IF Truthy(result.value) THEN node.next_true ELSE node.next_false
    ELSE node.next

\* The two breaks of the loop (lines 233 and 243)
StopsIgnoringFailure(result, next_nodes) == next_nodes = <<>>
Stops(result, next_nodes) == ~result.success \/ next_nodes = <<>>

\* results.append(...), kept to the first MaxTrace entries
Record(trace, entry) == IF Len(trace) < MaxTrace THEN Append(trace, entry) ELSE trace

LastOf(next_nodes) == next_nodes[Len(next_nodes)]

\* next_nodes[0] (line 246)
FirstOf(next_nodes) == Head(next_nodes)

publish_retried(calls, node, accepted) ==
    LET call == [action |-> node.action, accepted |-> accepted]
    IN IF node.type # "publish" THEN calls
       ELSE IF accepted THEN Record(calls, call)
       ELSE Record(Record(calls, call), call)

\* The calls of publisher.publish (line 186) after the execution of node: a
\* PUBLISH node makes one call, accepted or not, and no other node makes any
publish_calls(calls, node, accepted) ==
    IF node.type = "publish"
    THEN Record(calls, [action |-> node.action, accepted |-> accepted])
    ELSE calls

ContextUnwritten(ctx, id, value) == ctx

\* self.execution_context[node.id] = result.value (line 213)
WriteContext(ctx, id, value) == (id :> value) @@ ctx

\* What the execution of node drew from outside the engine: whether the store
\* answered the read of a GET_DATA node, whether the dispatcher took the message
\* of a PUBLISH node; other nodes draw nothing
Response(node, up, accepted) ==
    CASE node.type = "get_data" /\ node.topic # <<>> -> up
      [] node.type = "publish" -> accepted
      [] OTHER -> TRUE

\* One iteration of the loop of execute_rule (lines 224-246) on a node that is not END
execute_step(p) ==
    /\ pc[p] = "walk"
    /\ LET rule == Running(p)
           node == rule.nodes[current_node[p]]
       IN /\ node.type # "end"
          /\ \E up \in BOOLEAN, accepted \in BOOLEAN :
             LET result == execute_node(node, execution_context[p], up, accepted)
                 entry == [node_id |-> current_node[p], type |-> node.type,
                           result |-> result.value, error |-> result.error]
                 trace == Record(results[p], entry)
                 next_nodes == NextNodes(node, result)
             IN /\ execution_context' =
                      [execution_context EXCEPT
                          ![p] = WriteContext(@, current_node[p], result.value)]
                /\ results' = [results EXCEPT ![p] = trace]
                /\ overflow' = [overflow EXCEPT ![p] = @ \/ Len(results[p]) >= MaxTrace]
                /\ dispatched' = [dispatched EXCEPT ![p] = publish_calls(@, node, accepted)]
                /\ responses' =
                      [responses EXCEPT ![p] = Record(@, Response(node, up, accepted))]
                /\ IF Stops(result, next_nodes)
                   THEN Return(p, RunResult(rule, trace)) /\ UNCHANGED current_node
                   ELSE IF FirstOf(next_nodes) \notin DOMAIN rule.nodes
                   THEN Return(p, ErrorResult(rule, "KeyError")) /\ UNCHANGED current_node
                   ELSE /\ current_node' = [current_node EXCEPT ![p] = FirstOf(next_nodes)]
                        /\ UNCHANGED <<pc, out>>
    /\ UNCHANGED <<now, rules, telemetry, snapshot, todo, selected, status, ingested,
                   received, request, effects, reply, logic, tree_results, tasks>>

\* The store read of a GET_DATA node (line 79) or future.result() of a PUBLISH
\* node (line 187) never returns: neither call is given a timeout, and the
\* invocation waits in it
adapter_call_hangs(p) ==
    /\ pc[p] = "walk"
    /\ LET node == Running(p).nodes[current_node[p]]
       IN \/ node.type = "get_data" /\ node.topic # <<>>
          \/ node.type = "publish"
    /\ pc' = [pc EXCEPT ![p] = "blocked"]
    /\ UNCHANGED <<now, rules, telemetry, snapshot, todo, selected, current_node,
                   execution_context, results, overflow, dispatched, responses, status,
                   ingested, received, request, effects, reply, logic, tree_results,
                   tasks, out>>

\* action_handler on a request. A body without action or with an empty
\* action_data is answered 400; an exception of process_rule, or of the helper
\* it calls (done = FALSE: the mail server or the store refuses), is answered
\* 500; otherwise the helper has sent the email or added the todo, and the
\* answer is 200.
action_handler(action, keys) ==
    /\ Len(effects) < MaxEffects
    /\ \E done \in BOOLEAN :
        LET does == IF action = "" \/ keys = {} THEN "invalid" ELSE process_rule(action, keys)
            code == CASE does = "invalid" -> 400
                      [] does = "ValueError" -> 500
                      [] OTHER -> IF done THEN 200 ELSE 500
        IN /\ reply' = [code |-> code, action |-> action, keys |-> keys]
           /\ effects' = IF code = 200 THEN Append(effects, [kind |-> does, keys |-> keys])
                          ELSE effects
    /\ UNCHANGED <<now, rules, telemetry, pc, snapshot, todo, selected, current_node,
                   execution_context, results, overflow, dispatched, responses, status,
                   ingested, received, request, logic, tree_results, tasks, out>>

\* The loop test of line 224 on an END node: execute_rule returns (line 248)
execute_rule_end(p) ==
    /\ pc[p] = "walk"
    /\ Running(p).nodes[current_node[p]].type = "end"
    /\ Return(p, RunResult(Running(p), results[p]))
    /\ UNCHANGED <<now, rules, telemetry, snapshot, todo, selected, current_node,
                   execution_context, results, overflow, dispatched, responses, status,
                   ingested, received, request, effects, reply, logic, tree_results,
                   tasks>>

\* evaluate_all_rules has run every selected rule: evaluate_rules responds (line 319)
\* with the results, and the engine and the locals of the invocation are gone
evaluate_rules_return(p) ==
    /\ pc[p] = "execute"
    /\ Len(out[p]) = Len(selected[p])
    /\ pc' = [pc EXCEPT ![p] = "done"]
    /\ status' = [status EXCEPT ![p] = StatusOf(out[p])]
    /\ snapshot' = [snapshot EXCEPT ![p] = <<>>]
    /\ selected' = [selected EXCEPT ![p] = <<>>]
    /\ current_node' = [current_node EXCEPT ![p] = ""]
    /\ execution_context' = [execution_context EXCEPT ![p] = [x \in {} |-> None]]
    /\ results' = [results EXCEPT ![p] = <<>>]
    /\ overflow' = [overflow EXCEPT ![p] = FALSE]
    /\ dispatched' = [dispatched EXCEPT ![p] = <<>>]
    /\ responses' = [responses EXCEPT ![p] = <<>>]
    /\ UNCHANGED <<now, rules, telemetry, todo, ingested, received, request, effects,
                   reply, logic, tree_results, tasks, out>>

\* A second passes on the wall clock
Tick ==
    /\ now < MaxTime
    /\ now' = now + 1
    /\ UNCHANGED <<rules, telemetry, pc, snapshot, todo, selected, current_node,
                   execution_context, results, overflow, dispatched, responses, status,
                   ingested, received, request, effects, reply, logic, tree_results,
                   tasks, out>>

\* ------------------------------------------------------- specifications
\* Rule documents as the authoring paths write them: the interval and last_run
\* given, last_run absent (insert_rules.py), last_run with an offset and the
\* interval left to its default (ActionFlow), a start_node that names no node.
AuthoredDocs(id) ==
    {RuleDoc(id, en, TRUE, iv, LastRun("naive", 0), "p", ExampleGraph) :
        en \in BOOLEAN, iv \in {1, 2}}
    \cup {RuleDoc(id, TRUE, TRUE, 1, LastRun("missing", 0), "p", ExampleGraph),
          RuleDoc(id, TRUE, TRUE, 1, LastRun("aware", 0), "p", ExampleGraph),
          RuleDoc(id, TRUE, FALSE, 0, LastRun("naive", 1 - DefaultInterval), "g", ExampleGraph),
          RuleDoc(id, TRUE, TRUE, 1, LastRun("naive", 0), "zz", ExampleGraph)}

StoreKey == safe_topic_id(Topic)
TelemetryValues == {None, IntV(20), IntV(35), StrV("published")}

Idle ==
    /\ pc = [p \in Passes |-> "idle"]
    /\ snapshot = [p \in Passes |-> <<>>]
    /\ todo = [p \in Passes |-> <<>>]
    /\ selected = [p \in Passes |-> <<>>]
    /\ current_node = [p \in Passes |-> ""]
    /\ execution_context = [p \in Passes |-> [x \in {} |-> None]]
    /\ results = [p \in Passes |-> <<>>]
    /\ overflow = [p \in Passes |-> FALSE]
    /\ dispatched = [p \in Passes |-> <<>>]
    /\ responses = [p \in Passes |-> <<>>]
    /\ tasks = [x \in {} |-> None]
    /\ received = <<>>
    /\ tree_results = <<>>
    /\ logic = NoLogic
    /\ reply = NoReply
    /\ effects = <<>>
    /\ request = [p \in Passes |-> <<>>]
    /\ ingested = [x \in {} |-> None]
    /\ status = [p \in Passes |-> ""]
    /\ out = [p \in Passes |-> <<>>]

Init ==
    /\ now = 0
    /\ rules \in {f \in [RuleIds -> UNION {AuthoredDocs(id) : id \in RuleIds}] :
                    \A id \in RuleIds : f[id].id = id}
    /\ telemetry \in [{StoreKey} -> {IntV(20), IntV(35)}]
    /\ Idle

Pass(p) ==
    \/ evaluate_rules(p)
    \/ get_rules(p)
    \/ execute_rule(p)
    \/ execute_step(p)
    \/ execute_rule_end(p)
    \/ evaluate_rules_return(p)

\* One invocation of evaluate_rules at a time
Next == Tick \/ Pass("a")

Spec == Init /\ [][Next]_vars

\* Time advances and the invocation in progress takes its next step
FairSpec == Spec /\ WF_vars(Tick) /\ WF_vars(Pass("a"))

\* Overlapping invocations of evaluate_rules on one rules collection
InitConcurrent ==
    /\ now = 0
    /\ rules \in {f \in [RuleIds -> UNION {AuthoredDocs(id) : id \in RuleIds}] :
                    \A id \in RuleIds : /\ f[id].id = id
                                        /\ f[id].enabled
                                        /\ f[id].interval = 1
                                        /\ f[id].last_run.kind = "naive"
                                        /\ f[id].start_node = "p"}
    /\ telemetry \in [{StoreKey} -> {IntV(35)}]
    /\ Idle

NextConcurrent == Tick \/ \E p \in Passes : Pass(p)

SpecConcurrent == InitConcurrent /\ [][NextConcurrent]_vars

\* One run of execute_rule, on every graph over g, c, p and e whose successor lists
\* are empty, name one node, or name no node of the rule ("zz"), from every start
\* node, and on the graphs of CuratedDocs, against every latest value of the
\* topic: the rule r1 has been selected and stamped by get_rules at time 1.
Successors == {<<>>, <<"g">>, <<"c">>, <<"p">>, <<"e">>, <<"zz">>}
RunGraphs == {Wired(gn, ct, cf, pn) : gn \in Successors, ct \in Successors,
                                       cf \in Successors, pn \in Successors}
WiredDocs(id) == {RuleDoc(id, TRUE, TRUE, 1, LastRun("naive", 0), start, nodes) :
                      start \in {"g", "c", "p", "e", "zz"}, nodes \in RunGraphs}

\* A COMPARE node on two literal operands, with any operator symbol: c -> {p, e}
Operands == {IntV(5), IntV(10), StrV("5"), StrV("abc")}
OperatorSymbols == Operations \cup {"~"}
LiteralCompare(input1, input2, operator) ==
    [id \in {"c", "p", "e"} |->
        CASE id = "c" -> [Compare(<<"p">>, <<"e">>) EXCEPT !.input1 = input1,
                                                          !.input2 = input2,
                                                          !.operator = operator]
          [] id = "p" -> Publish(<<"e">>)
          [] OTHER -> End]
CompareGraphs == {LiteralCompare(x, y, op) : x \in Operands, y \in Operands,
                                             op \in OperatorSymbols}

\* The example graph with the successor lists its node types do not use filled in:
\* next of the COMPARE node, next_true and next_false of the other nodes
Unused(nodes, ids) ==
    [id \in DOMAIN nodes |->
        IF nodes[id].type = "compare" THEN [nodes[id] EXCEPT !.next = ids]
        ELSE [nodes[id] EXCEPT !.next_true = ids, !.next_false = ids]]
UnusedGraphs == {Unused(ExampleGraph, ids) : ids \in {<<"zz">>, <<"e">>, <<"g">>}}

\* Successor lists of more than one id
FanOutGraphs == {Wired(gn, ct, cf, <<"e">>) :
                    gn \in {<<"c", "p">>, <<"p", "c">>, <<"zz", "p">>},
                    ct \in {<<"p", "e">>, <<"e", "p">>},
                    cf \in {<<"e", "p">>, <<"p", "g">>}}

\* g -> c (g > 30) -> c2 (g < 30) -> a (AND or OR of inputs) -> e
LogicalInputs == {<<"c", "c2">>, <<"g", "c">>, <<"c", "zz">>, <<"c2">>, <<"zz">>, <<>>}
Logical(type, inputs) ==
    [id \in {"g", "c", "c2", "a", "e"} |->
        CASE id = "g" -> GetData(<<"c">>)
          [] id = "c" -> Compare(<<"c2">>, <<"c2">>)
          [] id = "c2" -> [Compare(<<"a">>, <<"a">>) EXCEPT !.operator = "<"]
          [] id = "a" -> [NodeDict(type, <<"e">>) EXCEPT !.inputs = inputs]
          [] OTHER -> End]
LogicalGraphs == {Logical(type, inputs) : type \in {"and", "or"}, inputs \in LogicalInputs}

\* g -> ... with a node t whose type NodeType does not name ("trigger")
UnknownType(g_next) ==
    [id \in {"g", "t", "e"} |->
        CASE id = "g" -> GetData(g_next)
          [] id = "t" -> NodeDict("trigger", <<"e">>)
          [] OTHER -> End]
UnknownTypeGraphs == {UnknownType(<<"t">>), UnknownType(<<"e">>)}

\* The example graph with the COMPARE node on g and p, the id of a node that runs
\* after it
Forward(operator) ==
    [ExampleGraph EXCEPT !["c"].input2 = StrV("p"), !["c"].operator = operator]
ForwardGraphs == {Forward("<"), Forward("==")}

CuratedDocs(id) ==
    {RuleDoc(id, TRUE, TRUE, 1, LastRun("naive", 0), "c", nodes) :
        nodes \in CompareGraphs \cup ForwardGraphs}
    \cup {RuleDoc(id, TRUE, TRUE, 1, LastRun("naive", 0), "g", nodes) : nodes \in ForwardGraphs}
    \cup {RuleDoc(id, TRUE, TRUE, 1, LastRun("naive", 0), "g", nodes) :
            nodes \in UnusedGraphs \cup FanOutGraphs \cup LogicalGraphs \cup UnknownTypeGraphs}

RunDocs(id) == WiredDocs(id) \cup CuratedDocs(id)

\* The newest value of the topic in a run: none, a number, a text, or one of the
\* falsy values 0, false and ""
FalsyValues == {IntV(0), BoolV(FALSE), StrV("")}
RunTelemetry == TelemetryValues \cup FalsyValues

InitRun ==
    /\ now = 1
    /\ \E doc \in RunDocs("r1") :
        /\ rules = [id \in RuleIds |->
                      IF id = "r1" THEN [doc EXCEPT !.last_run = LastRun("naive", 1)]
                      ELSE [doc EXCEPT !.id = id, !.enabled = FALSE]]
        /\ snapshot = [p \in Passes |->
                         IF p = "a" THEN [id \in RuleIds |->
                                            IF id = "r1" THEN doc
                                            ELSE [doc EXCEPT !.id = id, !.enabled = FALSE]]
                         ELSE <<>>]
        /\ selected = [p \in Passes |-> IF p = "a" THEN <<doc>> ELSE <<>>]
    /\ telemetry \in [{StoreKey} -> RunTelemetry]
    /\ pc = [p \in Passes |-> IF p = "a" THEN "execute" ELSE "idle"]
    /\ todo = [p \in Passes |-> <<>>]
    /\ current_node = [p \in Passes |-> ""]
    /\ execution_context = [p \in Passes |-> [x \in {} |-> None]]
    /\ results = [p \in Passes |-> <<>>]
    /\ overflow = [p \in Passes |-> FALSE]
    /\ dispatched = [p \in Passes |-> <<>>]
    /\ responses = [p \in Passes |-> <<>>]
    /\ tasks = [x \in {} |-> None]
    /\ received = <<>>
    /\ tree_results = <<>>
    /\ logic = NoLogic
    /\ reply = NoReply
    /\ effects = <<>>
    /\ request = [p \in Passes |-> <<>>]
    /\ ingested = [x \in {} |-> None]
    /\ status = [p \in Passes |-> ""]
    /\ out = [p \in Passes |-> <<>>]

NextRun == execute_rule("a") \/ execute_step("a") \/ execute_rule_end("a")

SpecRun == InitRun /\ [][NextRun]_vars

\* The interpreter keeps running the loop of execute_rule
FairRun == SpecRun /\ WF_vars(NextRun)

\* The ingestor stores the messages of three topics, two of which differ only by
\* '/' and '.', and requests an evaluation for those marked immediate; requests
\* come from the schedule as well. Rule r1 reads the topic s/t every 2 seconds;
\* rule r2 is disabled.
MqttTopics == {Topic, <<"s", ".", "t">>, <<"u">>}
MqttValues == {IntV(20), IntV(35)}

InitIngest ==
    /\ now = 0
    /\ rules = [id \in RuleIds |->
                  IF id = "r1"
                  THEN RuleDoc(id, TRUE, TRUE, 2, LastRun("naive", 0), "g", ExampleGraph)
                  ELSE RuleDoc(id, FALSE, TRUE, 1, LastRun("naive", 0), "p", ExampleGraph)]
    /\ telemetry = [x \in {} |-> None]
    /\ Idle

NextIngest ==
    \/ Tick
    \/ Pass("a")
    \/ \E topic \in MqttTopics, value \in MqttValues, immediate \in BOOLEAN :
          on_message("a", topic, value, immediate, "ok")

SpecIngest == InitIngest /\ [][NextIngest]_vars

\* The ingestor receives messages of every payload shape on one topic
NextDrop ==
    \/ Tick
    \/ Pass("a")
    \/ \E immediate \in BOOLEAN, payload \in PayloadShapes :
          on_message("a", Topic, IntV(35), immediate, payload)

SpecDrop == InitIngest /\ [][NextDrop]_vars

\* One cycle over two selected rules, on acyclic graphs, when a call to the store
\* or to the dispatcher may never return
HangDocs(id) == {RuleDoc(id, TRUE, TRUE, 1, LastRun("naive", 0), start, ExampleGraph) :
                    start \in {"g", "c", "p"}}

InitHang ==
    /\ now = 1
    /\ \E first \in HangDocs("r1"), second \in HangDocs("r2") :
        /\ rules = [id \in RuleIds |->
                      [(IF id = "r1" THEN first ELSE second)
                          EXCEPT !.last_run = LastRun("naive", 1)]]
        /\ snapshot = [p \in Passes |->
                         IF p = "a" THEN [id \in RuleIds |-> IF id = "r1" THEN first ELSE second]
                         ELSE <<>>]
        /\ selected = [p \in Passes |-> IF p = "a" THEN <<first, second>> ELSE <<>>]
    /\ telemetry \in [{StoreKey} -> TelemetryValues]
    /\ pc = [p \in Passes |-> IF p = "a" THEN "execute" ELSE "idle"]
    /\ todo = [p \in Passes |-> <<>>]
    /\ current_node = [p \in Passes |-> ""]
    /\ execution_context = [p \in Passes |-> [x \in {} |-> None]]
    /\ results = [p \in Passes |-> <<>>]
    /\ overflow = [p \in Passes |-> FALSE]
    /\ dispatched = [p \in Passes |-> <<>>]
    /\ responses = [p \in Passes |-> <<>>]
    /\ tasks = [x \in {} |-> None]
    /\ received = <<>>
    /\ tree_results = <<>>
    /\ logic = NoLogic
    /\ reply = NoReply
    /\ effects = <<>>
    /\ status = [p \in Passes |-> ""]
    /\ ingested = [x \in {} |-> None]
    /\ request = [p \in Passes |-> <<>>]
    /\ out = [p \in Passes |-> <<>>]

NextHang ==
    \/ execute_rule("a")
    \/ execute_step("a")
    \/ execute_rule_end("a")
    \/ adapter_call_hangs("a")
    \/ evaluate_rules_return("a")

\* The interpreter keeps running the cycle
FairHang == InitHang /\ [][NextHang]_vars /\ WF_vars(NextHang)

\* The action executor answers requests of every shape while the engine runs a
\* rule whose PUBLISH node carries any action value: p (PUBLISH) -> e (END)
ActionValues == {"email", "add_todo", "sms", ""}
ActionDataKeys == SUBSET {"to", "body", "x"}
ActionGraph(action) ==
    [id \in {"p", "e"} |->
        IF id = "p" THEN [Publish(<<"e">>) EXCEPT !.action = action] ELSE End]
ActionDocs(id) == {RuleDoc(id, TRUE, TRUE, 1, LastRun("naive", 0), "p", ActionGraph(action)) :
                      action \in ActionValues}

InitAction ==
    /\ now = 1
    /\ \E doc \in ActionDocs("r1") :
        /\ rules = [id \in RuleIds |->
                      IF id = "r1" THEN [doc EXCEPT !.last_run = LastRun("naive", 1)]
                      ELSE [doc EXCEPT !.id = id, !.enabled = FALSE]]
        /\ snapshot = [p \in Passes |->
                         IF p = "a" THEN [id \in RuleIds |->
                                            IF id = "r1" THEN doc
                                            ELSE [doc EXCEPT !.id = id, !.enabled = FALSE]]
                         ELSE <<>>]
        /\ selected = [p \in Passes |-> IF p = "a" THEN <<doc>> ELSE <<>>]
    /\ telemetry \in [{StoreKey} -> {IntV(35)}]
    /\ pc = [p \in Passes |-> IF p = "a" THEN "execute" ELSE "idle"]
    /\ todo = [p \in Passes |-> <<>>]
    /\ current_node = [p \in Passes |-> ""]
    /\ execution_context = [p \in Passes |-> [x \in {} |-> None]]
    /\ results = [p \in Passes |-> <<>>]
    /\ overflow = [p \in Passes |-> FALSE]
    /\ dispatched = [p \in Passes |-> <<>>]
    /\ responses = [p \in Passes |-> <<>>]
    /\ tasks = [x \in {} |-> None]
    /\ received = <<>>
    /\ tree_results = <<>>
    /\ logic = NoLogic
    /\ status = [p \in Passes |-> ""]
    /\ ingested = [x \in {} |-> None]
    /\ request = [p \in Passes |-> <<>>]
    /\ effects = <<>>
    /\ reply = NoReply
    /\ out = [p \in Passes |-> <<>>]

NextAction ==
    \/ execute_rule("a")
    \/ execute_step("a")
    \/ execute_rule_end("a")
    \/ \E action \in ActionValues, keys \in ActionDataKeys : action_handler(action, keys)

SpecAction == InitAction /\ [][NextAction]_vars

\* The graph engine and the tree engine evaluate the same rule against the same
\* telemetry: the rule's tree form in logic, and in the rules collection the graph
\*   g1 -> k1 -> [g2 -> k2 ->] a -> p -> e
\* with a GET_DATA node g_i and a COMPARE node k_i per condition, the AND/OR node
\* a over the k_i, the PUBLISH node p and the END node e. Without branching both
\* successors of a COMPARE node lead on; with it (gated) next_false leads to e.
OtherTopic == <<"u">>
TreeTopics == {Topic, OtherTopic}
Conditions ==
    {Condition(topic, operation, IntV(30)) : topic \in TreeTopics, operation \in {">", "<"}}
    \cup {Condition(Topic, "==", StrV("35"))}
TreeLogics ==
    {LogicalExpression(operator, operands) :
        operator \in {"AND", "OR"},
        operands \in {<<c>> : c \in Conditions} \cup (Conditions \X Conditions)}

GetIds == <<"g1", "g2">>
CompareIds == <<"k1", "k2">>
TreeGraph(expr, gated) ==
    LET n == Len(expr.operands)
        After(i) == IF i < n THEN <<GetIds[i + 1]>> ELSE <<"a">>
    IN [id \in {GetIds[i] : i \in 1..n} \cup {CompareIds[i] : i \in 1..n} \cup {"a", "p", "e"} |->
          CASE \E i \in 1..n : id = GetIds[i] ->
                   LET i == CHOOSE i \in 1..n : id = GetIds[i]
                   IN [NodeDict("get_data", <<CompareIds[i]>>) EXCEPT
                          !.topic = expr.operands[i].topic]
            [] \E i \in 1..n : id = CompareIds[i] ->
                   LET i == CHOOSE i \in 1..n : id = CompareIds[i]
                   IN [NodeDict("compare", <<>>) EXCEPT
                          !.input1 = StrV(GetIds[i]),
                          !.input2 = expr.operands[i].value,
                          !.operator = expr.operands[i].operation,
                          !.next_true = After(i),
                          !.next_false = IF gated THEN <<"e">> ELSE After(i)]
            [] id = "a" -> [NodeDict(IF expr.operator = "AND" THEN "and" ELSE "or", <<"p">>)
                              EXCEPT !.inputs = SubSeq(CompareIds, 1, n)]
            [] id = "p" -> Publish(<<"e">>)
            [] OTHER -> End]

TreeTelemetry == {None, IntV(20), IntV(35), StrV("5")}

InitTree ==
    /\ now = 1
    /\ \E expr \in TreeLogics, gated \in BOOLEAN :
        LET doc == RuleDoc("r1", TRUE, TRUE, 1, LastRun("naive", 0), "g1",
                           TreeGraph(expr, gated))
        IN /\ logic = expr
           /\ rules = [id \in RuleIds |->
                         IF id = "r1" THEN [doc EXCEPT !.last_run = LastRun("naive", 1)]
                         ELSE [doc EXCEPT !.id = id, !.enabled = FALSE]]
           /\ snapshot = [p \in Passes |->
                            IF p = "a" THEN [id \in RuleIds |->
                                               IF id = "r1" THEN doc
                                               ELSE [doc EXCEPT !.id = id, !.enabled = FALSE]]
                            ELSE <<>>]
           /\ selected = [p \in Passes |-> IF p = "a" THEN <<doc>> ELSE <<>>]
    /\ telemetry \in [{safe_topic_id(topic) : topic \in TreeTopics} -> TreeTelemetry]
    /\ pc = [p \in Passes |-> IF p = "a" THEN "execute" ELSE "idle"]
    /\ todo = [p \in Passes |-> <<>>]
    /\ current_node = [p \in Passes |-> ""]
    /\ execution_context = [p \in Passes |-> [x \in {} |-> None]]
    /\ results = [p \in Passes |-> <<>>]
    /\ overflow = [p \in Passes |-> FALSE]
    /\ dispatched = [p \in Passes |-> <<>>]
    /\ responses = [p \in Passes |-> <<>>]
    /\ tasks = [x \in {} |-> None]
    /\ received = <<>>
    /\ status = [p \in Passes |-> ""]
    /\ ingested = [x \in {} |-> None]
    /\ request = [p \in Passes |-> <<>>]
    /\ effects = <<>>
    /\ reply = NoReply
    /\ tree_results = <<>>
    /\ out = [p \in Passes |-> <<>>]

NextTree ==
    \/ execute_rule("a")
    \/ execute_step("a")
    \/ execute_rule_end("a")
    \/ evaluate_rule

SpecTree == InitTree /\ [][NextTree]_vars

\* The task API serves requests on a tasks collection that starts empty
TaskIds == {"t1", "t2"}
Priorities == {"Low", "Medium", "High"}
DueDates == {DateTime(1, TRUE), DateTime(9, FALSE)}

InitTasks ==
    /\ now = 1
    /\ rules = [id \in RuleIds |->
                  RuleDoc(id, FALSE, TRUE, 1, LastRun("naive", 0), "p", ExampleGraph)]
    /\ telemetry = [x \in {} |-> None]
    /\ Idle

NextTasks ==
    \E document_id \in TaskIds :
        \/ \E dueDate \in DueDates, priority \in Priorities, completed \in BOOLEAN :
              create_task(document_id, dueDate, priority, completed)
        \/ complete_task(document_id)
        \/ \E new_priority \in Priorities : update_priority(document_id, new_priority)
        \/ delete_task(document_id)

SpecTasks == InitTasks /\ [][NextTasks]_vars

\* Two engine instances run the same rule r2 against the same store: the
\* instance of invocation a runs it first, the instance of invocation b runs it
\* after the rule r1 (which was disabled when a read the collection). Both
\* invocations have read the collection and selected their rules at time 1.
PairGraphs == {ExampleGraph, Logical("and", <<"g", "c">>), Logical("or", <<"c", "c2">>)}
PairDocs(id) ==
    {RuleDoc(id, TRUE, TRUE, 1, LastRun("naive", 0), start, nodes) :
        start \in {"g", "c"}, nodes \in PairGraphs}
    \cup {RuleDoc(id, TRUE, TRUE, 1, LastRun("naive", 0), "a", nodes) :
            nodes \in PairGraphs \ {ExampleGraph}}
PreviousDocs(id) ==
    {RuleDoc(id, TRUE, TRUE, 1, LastRun("naive", 0), "g", nodes) :
        nodes \in {ExampleGraph, Logical("and", <<"c", "c2">>)}}
    \cup {RuleDoc(id, TRUE, TRUE, 1, LastRun("naive", 0), "zz", ExampleGraph)}

InitPair ==
    /\ now = 1
    /\ \E prev \in PreviousDocs("r1"), doc \in PairDocs("r2") :
        /\ rules = [id \in RuleIds |->
                      [(IF id = "r1" THEN prev ELSE doc) EXCEPT !.last_run = LastRun("naive", 1)]]
        /\ snapshot = [p \in Passes |->
                         [id \in RuleIds |->
                            IF id = "r2" THEN doc
                            ELSE [prev EXCEPT !.enabled = (p = "b")]]]
        /\ selected = [p \in Passes |-> IF p = "a" THEN <<doc>> ELSE <<prev, doc>>]
    /\ telemetry \in [{StoreKey} -> TelemetryValues]
    /\ pc = [p \in Passes |-> "execute"]
    /\ todo = [p \in Passes |-> <<>>]
    /\ current_node = [p \in Passes |-> ""]
    /\ execution_context = [p \in Passes |-> [x \in {} |-> None]]
    /\ results = [p \in Passes |-> <<>>]
    /\ overflow = [p \in Passes |-> FALSE]
    /\ dispatched = [p \in Passes |-> <<>>]
    /\ responses = [p \in Passes |-> <<>>]
    /\ tasks = [x \in {} |-> None]
    /\ received = <<>>
    /\ tree_results = <<>>
    /\ logic = NoLogic
    /\ reply = NoReply
    /\ effects = <<>>
    /\ request = [p \in Passes |-> <<>>]
    /\ ingested = [x \in {} |-> None]
    /\ status = [p \in Passes |-> ""]
    /\ out = [p \in Passes |-> <<>>]

NextPair == \E p \in Passes : execute_rule(p) \/ execute_step(p) \/ execute_rule_end(p)

SpecPair == InitPair /\ [][NextPair]_vars

\* ------------------------------------------------------------- properties
\* The run of execute_rule that returned last in invocation p, with its locals
Ended(p) == pc[p] = "execute" /\ out[p] # <<>>
LastResult(p) == out[p][Len(out[p])]
LastRule(p) == RuleAt(p, Len(out[p]))

Published(e) == e.type = "publish" /\ e.result = StrV("published")

\* A trace entry of a node that failed: an error in its details, or no value read
Failed(e) == e.error # "" \/ (e.type = "get_data" /\ e.result = None)

IsExample(doc) == doc.nodes = ExampleGraph /\ doc.start_node = "g"

\* C1: on the example graph GET_DATA(T) -> COMPARE(> 30) -> {PUBLISH(email), END} -> END
\* a run that reads 35 hands exactly one Action Request, with action "email", to
\* the dispatcher and reports triggered (when the dispatcher takes it); a run
\* that reads 20 hands none and reports not triggered.
C1_ExampleGraph ==
    \A p \in Passes :
        (Ended(p) /\ IsExample(LastRule(p)) /\ results[p] # <<>>) =>
            /\ results[p][1].result = IntV(35) =>
                  /\ Len(dispatched[p]) = 1
                  /\ dispatched[p][1].action = "email"
                  /\ LastResult(p).triggered <=> dispatched[p][1].accepted
            /\ results[p][1].result = IntV(20) =>
                  /\ dispatched[p] = <<>>
                  /\ ~LastResult(p).triggered

C1_Witness ==
    /\ Ended("a") /\ IsExample(LastRule("a")) /\ results["a"] # <<>>
    /\ results["a"][1].result = IntV(35)
    /\ LastResult("a").triggered

\* C7: the triggered flag of a result is true exactly when its trace holds a
\* PUBLISH entry whose value is "published"; a result without error carries the
\* whole trace of the run, and the marker comes only from an accepted dispatch.
C7_TriggeredIffPublished ==
    \A p \in Passes :
        (Ended(p) /\ ~overflow[p]) =>
            LET r == LastResult(p)
            IN /\ r.triggered <=>
                    \E i \in DOMAIN r.node_results :
                        /\ r.node_results[i].type = "publish"
                        /\ r.node_results[i].result = StrV("published")
               /\ r.error = "" => r.node_results = results[p]
               /\ r.triggered => \E i \in DOMAIN dispatched[p] : dispatched[p][i].accepted

C7_Witness ==
    /\ Ended("a") /\ ~overflow["a"]
    /\ ~LastResult("a").triggered
    /\ \E i \in DOMAIN LastResult("a").node_results :
          /\ LastResult("a").node_results[i].type = "get_data"
          /\ LastResult("a").node_results[i].result = StrV("published")

C9_NoNodeExecutedTwice ==
    \A p \in Passes :
        \A i, j \in DOMAIN results[p] :
            i # j => results[p][i].node_id # results[p][j].node_id

\* The nodes and successor ids of a rule are well formed
WellFormed(doc) ==
    /\ ~from_dict_raises(doc.nodes)
    /\ doc.start_node \in DOMAIN doc.nodes
    /\ \A id \in DOMAIN doc.nodes :
          \A succ \in {doc.nodes[id].next, doc.nodes[id].next_true, doc.nodes[id].next_false} :
              \A i \in DOMAIN succ : succ[i] \in DOMAIN doc.nodes

\* C10 as claimed: every run of execute_rule on a well formed graph eventually ends.
C10_RunEnds ==
    (pc["a"] = "walk" /\ WellFormed(Running("a"))) ~> (pc["a"] = "execute")

\* get_rules of invocation p has visited every document of its read
Visited(p) == pc[p] \in {"execute", "walk"} /\ todo[p] = <<>>

\* The step is the iteration of get_rules of invocation p on document doc
Examines(p) == pc[p] = "select" /\ todo'[p] # todo[p]
Examined(p) == snapshot[p][Head(todo[p])]

\* C2: a rule document with enabled = false is never put in the list get_rules
\* returns and its last_run is never written.
C2_DisabledNeverSelected ==
    [][/\ \A p \in Passes : \A i \in DOMAIN selected'[p] : selected'[p][i].enabled
       /\ \A id \in RuleIds : ~rules[id].enabled => rules'[id] = rules[id]]_vars

\* Rule r2 is disabled and was due when get_rules, having selected and stamped
\* r1, examined it
C2_Witness ==
    /\ Visited("a")
    /\ ~rules["r2"].enabled
    /\ \E i \in DOMAIN selected["a"] :
          /\ selected["a"][i].id = "r1"
          /\ rules["r1"].last_run.t > selected["a"][i].last_run.t
          /\ rules["r1"].last_run.t - rules["r2"].last_run.t >= IntervalOf(rules["r2"])

\* C3: get_rules leaves out an enabled rule, whose last_run it could compare with
\* the clock, when now - last_run < interval, and selects it when
\* now - last_run >= interval.
C3_IntervalBoundary ==
    [][\A p \in Passes :
          (Examines(p) /\ Examined(p).enabled /\ ~ParseRaises(Examined(p))) =>
              /\ now - Examined(p).last_run.t < IntervalOf(Examined(p))
                    => selected'[p] = selected[p]
              /\ now - Examined(p).last_run.t >= IntervalOf(Examined(p))
                    => selected'[p] = Append(selected[p], Examined(p))]_vars

\* A rule was selected and stamped when now - last_run was exactly its interval
C3_Witness ==
    /\ Visited("a")
    /\ \E i \in DOMAIN selected["a"] :
          LET doc == selected["a"][i]
          IN rules[doc.id].last_run.t - doc.last_run.t = IntervalOf(doc)

\* C4 as claimed: when execute_rule runs a rule, get_rules has stamped the
\* rule's last_run with the time it selected it.
C4_StampedBeforeExecute ==
    \A p \in Passes :
        pc[p] = "walk" =>
            /\ rules[Running(p).id].last_run.kind = "naive"
            /\ rules[Running(p).id].last_run.t >=
                  Running(p).last_run.t + IntervalOf(Running(p))

\* C5 as claimed: two overlapping invocations never both select a rule for the
\* same due moment (the same last_run).
C5_OnePassPerWindow ==
    \A i \in DOMAIN selected["a"], j \in DOMAIN selected["b"] :
        selected["a"][i].id = selected["b"][j].id
            => selected["a"][i].last_run # selected["b"][j].last_run

\* C6: with one invocation at a time, a write of a rule's last_run moves it
\* forward by at least the rule's interval; last_run never decreases.
C6_StampsSpaced ==
    [][\A id \in RuleIds :
          rules'[id].last_run # rules[id].last_run =>
              /\ rules[id].last_run.kind = "naive"
              /\ rules'[id].last_run.kind = "naive"
              /\ rules'[id].last_run.t >= rules[id].last_run.t
              /\ rules'[id].last_run.t - rules[id].last_run.t >= IntervalOf(rules[id])]_vars

\* A rule stamped by an earlier cycle has been stamped again by this one
C6_Witness ==
    /\ Visited("a")
    /\ \E id \in RuleIds :
          /\ snapshot["a"][id].last_run.t >= 1
          /\ rules[id].last_run.t > snapshot["a"][id].last_run.t

\* A trace entry of a GET_DATA node that read no value for its topic
NoValue(e) == e.type = "get_data" /\ e.result = None /\ e.error = ""

\* The PUBLISH entries among the first n entries of a trace
PublishEntries(trace, n) == {j \in 1..n : trace[j].type = "publish"}

RunRule(p) == IF pc[p] = "walk" THEN Running(p) ELSE LastRule(p)
InRun(p) == pc[p] = "walk" \/ Ended(p)

\* The list the claim names for the successor of a node, by the node's type and
\* the value of its trace entry
NamedList(node, e) ==
    IF node.type = "compare"
    THEN IF Truthy(e.result) THEN node.next_true ELSE node.next_false
    ELSE node.next

\* C12: the node that follows a successful node is the first id of next_true
\* (COMPARE, result true), of next_false (COMPARE, result false) or of next (any
\* other type): the next trace entry, or the current node, is that node, and
\* the run ends after a successful node only when that list is empty, names an
\* END node, or names no node of the rule.
C12_SuccessorByType ==
    \A p \in Passes :
        (InRun(p) /\ ~overflow[p]) =>
            \A i \in DOMAIN results[p] :
                LET e == results[p][i]
                    nodes == RunRule(p).nodes
                    list == NamedList(nodes[e.node_id], e)
                IN ~Failed(e) =>
                      /\ i < Len(results[p]) =>
                            list # <<>> /\ results[p][i + 1].node_id = list[1]
                      /\ (i = Len(results[p]) /\ pc[p] = "walk") =>
                            list # <<>> /\ current_node[p] = list[1]
                      /\ (i = Len(results[p]) /\ Ended(p)) =>
                            \/ list = <<>> /\ LastResult(p).error = ""
                            \/ /\ list # <<>> /\ list[1] \in DOMAIN nodes
                               /\ nodes[list[1]].type = "end"
                               /\ LastResult(p).error = ""
                            \/ /\ list # <<>> /\ list[1] \notin DOMAIN nodes
                               /\ LastResult(p).error = "KeyError"

\* On the example graph whose COMPARE node has next = [g], the comparison was
\* true and the PUBLISH node of next_true ran after it
C12_Witness ==
    /\ Ended("a") /\ ~overflow["a"]
    /\ LastRule("a").nodes = Unused(ExampleGraph, <<"g">>)
    /\ Len(results["a"]) = 3
    /\ results["a"][2].type = "compare" /\ results["a"][2].result = BoolV(TRUE)
    /\ results["a"][3].node_id = "p"

RunsPaired(p) ==
    LET before == IF p = "a" THEN 0 ELSE 1
    IN /\ ~overflow[p]
       /\ \/ Len(out[p]) = before /\ pc[p] = "walk"
          \/ Len(out[p]) = before + 1
PairedResult(p) == out[p][Len(selected[p])]
PairedEnded(p) == Len(out[p]) = Len(selected[p])

\* C14: two runs of one rule against one telemetry snapshot, one on a fresh
\* engine and one on an engine that ran another rule before, agree entry by
\* entry (node id, type, value, error) for as long as the store and the
\* dispatcher answered them alike, and when both have ended under the same
\* answers they return the same result (trace, triggered, error).
C14_RunsAgree ==
    (RunsPaired("a") /\ RunsPaired("b")) =>
        /\ \A i \in DOMAIN results["a"] \cap DOMAIN results["b"] :
              (\A j \in 1..i : responses["a"][j] = responses["b"][j])
                  => results["a"][i] = results["b"][i]
        /\ (PairedEnded("a") /\ PairedEnded("b") /\ responses["a"] = responses["b"])
              => PairedResult("a") = PairedResult("b")

\* Both runs of r2 have ended alike with a trace of two entries or more, the
\* second after a run of r1 that left values in the context
C14_Witness ==
    /\ RunsPaired("a") /\ RunsPaired("b")
    /\ PairedEnded("a") /\ PairedEnded("b")
    /\ responses["a"] = responses["b"]
    /\ Len(PairedResult("b").node_results) >= 2
    /\ Len(out["b"][1].node_results) >= 2

\* The value the trace gives node id after its first n entries (None when the
\* node has no entry among them)
ValueAfter(trace, n, id) ==
    LET at == {j \in 1..n : trace[j].node_id = id}
    IN IF at = {} THEN None
       ELSE trace[CHOOSE j \in at : \A k \in at : k <= j].result
Executed(trace, n) == {trace[j].node_id : j \in 1..n}

\* C15: during a run the execution context holds the values of the nodes this
\* run has executed and nothing else: it is empty when the run starts, whatever
\* the runs before it on the same engine wrote.
C15_ContextOfThisRun ==
    \A p \in Passes :
        (pc[p] = "walk" /\ ~overflow[p]) =>
            /\ DOMAIN execution_context[p] = Executed(results[p], Len(results[p]))
            /\ \A id \in DOMAIN execution_context[p] :
                  execution_context[p][id] = ValueAfter(results[p], Len(results[p]), id)

\* The engine of invocation b ran r1, whose node g read 35, and now starts r2 at
\* its COMPARE node c, which names g: the context is empty
C15_Witness ==
    /\ pc["b"] = "walk" /\ Len(out["b"]) = 1
    /\ out["b"][1].node_results # <<>>
    /\ out["b"][1].node_results[1].node_id = "g"
    /\ out["b"][1].node_results[1].result = IntV(35)
    /\ current_node["b"] = "c"
    /\ results["b"] = <<>>
    /\ execution_context["b"] = [x \in {} |-> None]

\* C16: the entry of an AND node carries true exactly when every id of its
\* inputs had a truthy value in the context when it ran, the entry of an OR node
\* exactly when one had; an id without a value counts as falsy, and the entry
\* is a success (no error), so the run goes on to the node's successor.
C16_LogicalNodes ==
    \A p \in Passes :
        (InRun(p) /\ ~overflow[p]) =>
            \A i \in DOMAIN results[p] :
                LET e == results[p][i]
                    node == RunRule(p).nodes[e.node_id]
                    truthy == {k \in DOMAIN node.inputs :
                                 Truthy(ValueAfter(results[p], i - 1, node.inputs[k]))}
                IN e.type \in {"and", "or"} =>
                      /\ e.error = ""
                      /\ e.type = "and" => e.result = BoolV(truthy = DOMAIN node.inputs)
                      /\ e.type = "or" => e.result = BoolV(truthy # {})
                      /\ (i = Len(results[p]) /\ pc[p] = "walk") => current_node[p] = node.next[1]
                      /\ (i = Len(results[p]) /\ Ended(p)) =>
                            /\ LastResult(p).error = ""
                            /\ LastResult(p).node_results = results[p]

\* An AND node over [c, zz] ran when c was true and no node zz had run: it
\* yielded false and the run ended at the END node without error
C16_Witness ==
    /\ Ended("a") /\ ~overflow["a"]
    /\ LastRule("a").nodes = Logical("and", <<"c", "zz">>)
    /\ Len(results["a"]) = 4
    /\ results["a"][2].node_id = "c" /\ results["a"][2].result = BoolV(TRUE)
    /\ results["a"][4].node_id = "a" /\ results["a"][4].result = BoolV(FALSE)
    /\ LastResult("a").error = ""

\* The trace entry e is of a COMPARE node with the literal operands x, y and the
\* operator symbol op
ComparesLiterals(p, e, x, y, op) ==
    /\ RunRule(p).nodes \in CompareGraphs
    /\ e.type = "compare"
    /\ RunRule(p).nodes[e.node_id].input1 = x
    /\ RunRule(p).nodes[e.node_id].input2 = y
    /\ RunRule(p).nodes[e.node_id].operator = op

\* C17 as claimed: a COMPARE node on (10, 5, ">") yields true; on ("5", 10, "<")
\* it yields true, the text being coerced to the number's type; on
\* ("abc", 5, "<") it yields a failure recorded in the trace, and the run returns.
C17_CompareCoerces ==
    \A p \in Passes :
        (InRun(p) /\ ~overflow[p]) =>
            \A i \in DOMAIN results[p] :
                LET e == results[p][i]
                IN /\ ComparesLiterals(p, e, IntV(10), IntV(5), ">") =>
                         (e.result = BoolV(TRUE) /\ e.error = "")
                   /\ ComparesLiterals(p, e, StrV("5"), IntV(10), "<") =>
                         (e.result = BoolV(TRUE) /\ e.error = "")
                   /\ ComparesLiterals(p, e, StrV("abc"), IntV(5), "<") =>
                         /\ e.result = None /\ e.error # ""
                         /\ Ended(p) => LastResult(p).node_results = results[p]

\* C18: the entry of a COMPARE node whose operator symbol is not one of the eight
\* operators is a failure: it carries an error and no value (never the value
\* false), it is the last entry of the trace, no successor runs and nothing is
\* dispatched after it, and the run returns its trace.
C18_UnknownOperatorFails ==
    \A p \in Passes :
        (InRun(p) /\ ~overflow[p]) =>
            \A i \in DOMAIN results[p] :
                LET e == results[p][i]
                    node == RunRule(p).nodes[e.node_id]
                IN (e.type = "compare" /\ node.operator \notin Operations) =>
                      /\ e.error # ""
                      /\ e.result = None
                      /\ i = Len(results[p])
                      /\ pc[p] # "walk"
                      /\ Len(responses[p]) = i
                      /\ Len(dispatched[p]) = Cardinality(PublishEntries(results[p], i - 1))
                      /\ Ended(p) => LastResult(p).node_results = results[p]

\* The run of a rule whose COMPARE node has the operator "~" on 10 and 5 has
\* ended on that node's failure
C18_Witness ==
    /\ Ended("a") /\ ~overflow["a"]
    /\ Len(results["a"]) = 1
    /\ ComparesLiterals("a", results["a"][1], IntV(10), IntV(5), "~")
    /\ Failed(results["a"][1])

\* The trace entry of the k-th execution of a PUBLISH node
PublishEntry(trace, k) ==
    CHOOSE j \in DOMAIN trace :
        trace[j].type = "publish" /\ Cardinality(PublishEntries(trace, j)) = k

C20_OneResultPerRule ==
    [][\A p \in Passes :
          /\ Examines(p) =>
                /\ todo'[p] = Tail(todo[p])
                /\ pc'[p] = IF Tail(todo[p]) = <<>> THEN "execute" ELSE "select"
                /\ ParseRaises(Examined(p)) => (selected'[p] = selected[p] /\ rules' = rules)
                /\ \A i \in DOMAIN selected[p] : selected'[p][i] = selected[p][i]
          /\ (pc[p] \in {"execute", "walk"} /\ out'[p] # out[p]) =>
                /\ Len(out'[p]) = Len(out[p]) + 1
                /\ \A i \in DOMAIN out[p] : out'[p][i] = out[p][i]
                /\ out'[p][Len(out'[p])].rule_id = selected[p][Len(out'[p])].id
                /\ pc'[p] = "execute"
                /\ selected'[p] = selected[p]
          /\ (pc[p] # "done" /\ pc'[p] = "done") =>
                /\ Len(out'[p]) = Len(selected[p])
                /\ \A i \in DOMAIN selected[p] : out'[p][i].rule_id = selected[p][i].id]_vars

\* The run of the first selected rule raised (its start_node names no node), and
\* the second selected rule was run to its end and triggered
C20_Witness ==
    /\ pc["a"] = "execute"
    /\ Len(selected["a"]) = 2 /\ Len(out["a"]) = 2
    /\ out["a"][1].error = "KeyError"
    /\ out["a"][2].error = "" /\ out["a"][2].triggered

\* The per-rule results of the response of invocation p
Responded(p) == pc[p] = "done" /\ out[p] # <<>>

\* A per-rule result of a run that failed: it raised, or one of its nodes failed
RunFailed(r) == r.error # "" \/ \E i \in DOMAIN r.node_results : Failed(r.node_results[i])

\* C21 as claimed: a response with per-rule results has status success; every
\* result of a run that failed, by an exception or by a node failure, has its
\* error field populated, and every other result has node_results and no error.
C21_FailedRunsCarryError ==
    \A p \in Passes :
        Responded(p) =>
            /\ status[p] = "success"
            /\ \A i \in DOMAIN out[p] :
                  /\ RunFailed(out[p][i]) => out[p][i].error # ""
                  /\ ~RunFailed(out[p][i]) => out[p][i].error = ""

\* C21 as amended: a response with per-rule results has status success, whatever
\* the results; a result with the error field populated (the run raised) has no
\* node_results and triggered = false; a result without it carries node_results,
\* in which a failed node, if any, is the last entry.
C21_ErrorOnlyOnException ==
    \A p \in Passes :
        /\ Responded(p) =>
              /\ status[p] = "success"
              /\ \A i \in DOMAIN out[p] :
                    LET r == out[p][i]
                    IN /\ r.error # "" => (r.node_results = <<>> /\ ~r.triggered)
                       /\ r.error = "" =>
                             \A j \in DOMAIN r.node_results :
                                 Failed(r.node_results[j]) => j = Len(r.node_results)
        /\ (pc[p] = "done" /\ status[p] # "success") => out[p] = <<>>

\* The response holds the result of a run that raised, with its error, and the
\* result of a run that stopped at a failed node, without an error field
C21_Witness ==
    /\ pc["a"] = "done" /\ status["a"] = "success"
    /\ Len(out["a"]) = 2
    /\ out["a"][1].error # ""
    /\ out["a"][2].error = ""
    /\ out["a"][2].node_results # <<>>
    /\ Failed(out["a"][2].node_results[Len(out["a"][2].node_results)])

\* C22 as claimed: a rule whose graph is malformed (a start_node or a successor
\* id that names no node, a node of unknown type) is rejected when it is
\* loaded: its run ends with an error before any node is executed, any store
\* read is made or any message is handed to the dispatcher.
C22_MalformedRuleSkipped ==
    \A p \in Passes :
        (InRun(p) /\ ~WellFormed(RunRule(p))) =>
            /\ pc[p] # "walk"
            /\ results[p] = <<>>
            /\ responses[p] = <<>>
            /\ dispatched[p] = <<>>
            /\ LastResult(p).error # ""

\* C23 as claimed: on the graph g -> t -> e, whose node t has the type "trigger",
\* the run started at g returns a trace that begins with the entry of g; when g
\* succeeded the trace ends with the entry of t, a failure with its error
\* recorded, and the result itself carries no error.
C23_UnknownTypeFailsLocally ==
    \A p \in Passes :
        (Ended(p) /\ LastRule(p).nodes = UnknownType(<<"t">>) /\ LastRule(p).start_node = "g") =>
            LET trace == LastResult(p).node_results
            IN /\ trace # <<>>
               /\ trace[1].node_id = "g"
               /\ ~Failed(trace[1]) =>
                     /\ Len(trace) = 2
                     /\ trace[2].node_id = "t"
                     /\ trace[2].error # ""
                     /\ LastResult(p).error = ""

\* The rule document names the topic in one of its GET_DATA nodes
References(doc, topic) ==
    \E id \in DOMAIN doc.nodes :
        doc.nodes[id].type = "get_data" /\ doc.nodes[id].topic = topic

\* C24 as claimed: an invocation requested for an immediate message on a topic
\* selects every enabled rule it examines that references the topic, whatever
\* the time since the rule's last_run.
C24_ImmediateBypassesInterval ==
    [][\A p \in Passes :
          (/\ Examines(p)
           /\ request[p] # <<>>
           /\ Examined(p).enabled
           /\ ~ParseRaises(Examined(p))
           /\ References(Examined(p), request[p]))
              => selected'[p] = Append(selected[p], Examined(p))]_vars

\* C25 as claimed: with the store reachable, get_latest_value(T) is the value of
\* the last message ingested on topic T, and None when none was ingested.
C25_LatestValueOfTopic ==
    \A topic \in MqttTopics :
        get_latest_value(topic, TRUE) =
            IF topic \in DOMAIN ingested THEN ingested[topic] ELSE None

\* C26: no step of the engine adds or removes a rule document, and a step changes
\* no field of a rule document other than last_run.
C26_OnlyLastRunWritten ==
    [][/\ DOMAIN rules' = DOMAIN rules
       /\ \A id \in DOMAIN rules :
             [rules'[id] EXCEPT !.last_run = rules[id].last_run] = rules[id]]_vars

\* Both rules have been stamped, the first of them twice, over several cycles
C26_Witness ==
    /\ pc["a"] = "done"
    /\ rules["r1"].last_run.kind = "naive" /\ rules["r1"].last_run.t >= 2
    /\ rules["r2"].last_run.kind = "naive" /\ rules["r2"].last_run.t >= 1
    /\ rules["r1"].interval = 1

\* C27 as claimed: a cycle over rules with acyclic graphs always completes, with
\* one result per selected rule, even when a call to the store or to the
\* dispatcher never returns.
C27_CycleCompletes ==
    (pc["a"] = "execute" /\ out["a"] = <<>> /\ Len(selected["a"]) = 2)
        ~> (pc["a"] = "done" /\ Len(out["a"]) = 2)

\* The request carries a recognised action with the fields it requires
Executable(r) ==
    \/ r.action = "email" /\ {"to", "body"} \subseteq r.keys
    \/ r.action = "add_todo" /\ "body" \in r.keys

\* C28: a request answered 200 is one with a recognised action and its required
\* fields, and it has added exactly one side effect, of the kind of its action;
\* every other request has an error answer (400 or 500) and adds none. A PUBLISH
\* node whose message the dispatcher accepts succeeds whatever its action value.
C28_ExecutorValidatesAction ==
    [][/\ (reply' # reply \/ effects' # effects) =>
             /\ reply'.code \in {200, 400, 500}
             /\ reply'.code = 200 =>
                   /\ Executable(reply')
                   /\ effects' = Append(effects, [kind |-> reply'.action, keys |-> reply'.keys])
             /\ reply'.code # 200 => effects' = effects
             /\ ~Executable(reply') => reply'.code # 200
       /\ \A p \in Passes :
             (dispatched'[p] # dispatched[p] /\ dispatched'[p] # <<>> /\ ~overflow'[p]) =>
                 LET call == dispatched'[p][Len(dispatched'[p])]
                     e == results'[p][Len(results'[p])]
                 IN call.accepted => (Published(e) /\ e.error = "")]_vars

\* The engine's PUBLISH node with the action "sms" was accepted and triggered the
\* rule; the executor sent one email and answered 500 to a request whose action
\* is "sms"
C28_Witness ==
    /\ Ended("a") /\ LastResult("a").triggered
    /\ dispatched["a"] = <<[action |-> "sms", accepted |-> TRUE]>>
    /\ Len(effects) = 1 /\ effects[1].kind = "email"
    /\ reply = [code |-> 500, action |-> "sms", keys |-> {"to", "body"}]

\* Both engines have evaluated the rule, and the store and the dispatcher
\* answered every call of either
BothEvaluated(p) ==
    /\ Ended(p) /\ ~overflow[p]
    /\ \A i \in DOMAIN responses[p] : responses[p][i]
    /\ tree_results # <<>> /\ tree_results[1].answered

\* C29: on the same rule and the same telemetry the graph engine's run of the
\* corresponding graph reports the triggered verdict of the tree engine's
\* evaluate_rule.
C29_GraphSubsumesTree ==
    \A p \in Passes :
        BothEvaluated(p) => LastResult(p).triggered = tree_results[1].triggered

\* C30: the execution of a node that is not END appends one entry to the trace,
\* after the entries already there, carrying the node's id and type, and stores
\* the entry's value in the context under the node's id, in the same step and so
\* before the next node executes; the first node executed is the start node; the
\* arrival at an END node returns the trace as it is and leaves the context as
\* it is.
C30_OneEntryPerExecutedNode ==
    [][\A p \in Passes :
          (pc[p] = "walk" /\ ~overflow'[p]) =>
              LET node == Running(p).nodes[current_node[p]]
                  n == Len(results[p])
              IN /\ results[p] = <<>> => current_node[p] = Running(p).start_node
                 /\ (node.type = "end" /\ out'[p] # out[p]) =>
                       /\ results'[p] = results[p]
                       /\ execution_context'[p] = execution_context[p]
                       /\ out'[p][Len(out'[p])].node_results = results[p]
                       /\ \A i \in 1..n : results[p][i].type # "end"
                 /\ (node.type # "end" /\ responses'[p] # responses[p]) =>
                       /\ Len(results'[p]) = n + 1
                       /\ SubSeq(results'[p], 1, n) = results[p]
                       /\ results'[p][n + 1].node_id = current_node[p]
                       /\ results'[p][n + 1].type = node.type
                       /\ execution_context'[p] =
                             [id \in DOMAIN execution_context[p] \cup {current_node[p]} |->
                                 IF id = current_node[p] THEN results'[p][n + 1].result
                                 ELSE execution_context[p][id]]]_vars

\* The run of the example graph went g, c, p and ended at the END node e: three
\* entries in that order, their values in the context, and nothing for e
C30_Witness ==
    /\ Ended("a") /\ ~overflow["a"]
    /\ current_node["a"] = "e"
    /\ LastRule("a").nodes = ExampleGraph
    /\ Len(results["a"]) = 3
    /\ [i \in 1..3 |-> results["a"][i].node_id] = <<"g", "c", "p">>
    /\ execution_context["a"] =
          [id \in {"g", "c", "p"} |->
              CASE id = "g" -> IntV(35) [] id = "c" -> BoolV(TRUE) [] OTHER -> StrV("published")]

\* The operand the claim gives a COMPARE input after the first n entries of the
\* trace: the latest value of the node it names when that node has an entry
\* among them, and the input itself otherwise
InputByExecution(trace, n, ref) ==
    IF ref.k = "str" /\ ref.s \in Executed(trace, n) THEN ValueAfter(trace, n, ref.s) ELSE ref

EmptyContext == [x \in {} |-> None]

C32_GetDataSucceedsIffValue ==
    \A p \in Passes :
        (InRun(p) /\ ~overflow[p]) =>
            \A i \in DOMAIN results[p] :
                LET e == results[p][i]
                    nodes == RunRule(p).nodes
                    node == nodes[e.node_id]
                    value == IF responses[p][i] THEN telemetry[safe_topic_id(node.topic)]
                             ELSE None
                    last == i = Len(results[p])
                IN (e.type = "get_data" /\ node.topic # <<>>) =>
                      /\ e.result = value /\ e.error = ""
                      /\ value = None => (last /\ pc[p] # "walk")
                      /\ value # None =>
                            /\ ValueAfter(results[p], i, e.node_id) = value
                            /\ last => execution_context[p][e.node_id] = value
                            /\ (last /\ pc[p] # "walk") =>
                                  \/ node.next = <<>>
                                  \/ node.next[1] \notin DOMAIN nodes
                                  \/ nodes[node.next[1]].type = "end"

\* The GET_DATA node of the example graph read 0: the COMPARE node ran after it
\* on that value (0 > 30 is false) and the run ended at END
C32_Witness ==
    /\ Ended("a") /\ ~overflow["a"]
    /\ LastRule("a").nodes = ExampleGraph
    /\ Len(results["a"]) = 2
    /\ results["a"][1].node_id = "g" /\ results["a"][1].result = IntV(0)
    /\ results["a"][2].node_id = "c" /\ results["a"][2].result = BoolV(FALSE)
    /\ execution_context["a"]["g"] = IntV(0)

\* C33: a run that reports triggered = false handed no message to the dispatcher:
\* no call of publisher.publish of that run was accepted, also when the run ended
\* with an exception after a PUBLISH node.
C33_NotTriggeredNothingDispatched ==
    \A p \in Passes :
        (Ended(p) /\ ~overflow[p] /\ ~LastResult(p).triggered) =>
            \A k \in DOMAIN dispatched[p] : ~dispatched[p][k].accepted

\* The rule id has been executed by invocation p: its result is in the response
RuleRan(p, id) == \E i \in DOMAIN out[p] : out[p][i].rule_id = id

\* An evaluation cycle has read the rules collection and examines its documents
CycleReads(p) == pc[p] = "select"

\* C34: when cycles that read the rules collection keep coming and time
\* advances, every enabled rule of the collection, as the authoring paths wrote
\* it, is eventually selected and executed.
C34_AuthoredRulesEventuallyRun ==
    \A id \in RuleIds :
        ([]<>CycleReads("a")) => (rules[id].enabled => <>RuleRan("a", id))

\* The document has no last_run, or one that cannot be compared with the
\* current time
Unparsable(doc) == doc.last_run.kind \in {"missing", "aware"}

\* C35: when the scheduler examines a document whose last_run is missing or
\* cannot be compared with the current time, it leaves the selection and the
\* rules collection as they are and goes on with the remaining documents of
\* the cycle (or, after the last one, with the execution of the selected
\* rules); no such document is ever among the selected or the executed rules.
C35_UnparsableRuleSkipped ==
    [][\A p \in Passes :
          /\ (/\ pc[p] = "select" /\ todo[p] # <<>> /\ todo'[p] # todo[p]
               /\ Unparsable(snapshot[p][Head(todo[p])])) =>
                 /\ selected'[p] = selected[p]
                 /\ rules' = rules
                 /\ todo'[p] = Tail(todo[p])
                 /\ pc'[p] = IF todo'[p] # <<>> THEN "select" ELSE "execute"
                 /\ out'[p] = out[p]
          /\ \A i \in DOMAIN selected'[p] : ~Unparsable(selected'[p][i])
          /\ \A i \in DOMAIN out'[p] : ~Unparsable(rules'[out'[p][i].rule_id])]_vars

\* r1 has no last_run and r2 is due: the cycle skipped r1, selected r2 after it
\* and executed it, and r1 is as it was
C35_Witness ==
    /\ rules["r1"].last_run = LastRun("missing", 0)
    /\ Ended("a") /\ RuleRan("a", "r2") /\ ~RuleRan("a", "r1")
    /\ Len(selected["a"]) = 1

\* The step starts an invocation of evaluate_rules for a request that names a
\* topic: the request _evaluate_rules sends for an immediate message
RequestSent(p) ==
    /\ pc[p] \in {"idle", "done"}
    /\ request'[p] # <<>>
    /\ pc'[p] # pc[p] \/ request'[p] # request[p]

\* C36: when the ingestor sends the evaluation request for an immediate message
\* on a topic, the store already holds the message's value as the newest of the
\* topic's collection; and a GET_DATA node of the invocation that reads that
\* collection, when the store answers, gets the newest value the collection
\* holds at that moment, so this message's value or a newer one.
C36_StoredBeforeEvaluation ==
    [][\A p \in Passes :
          /\ RequestSent(p) =>
                /\ request'[p] \in DOMAIN ingested'
                /\ ingestor_safe_topic_id(request'[p]) \in DOMAIN telemetry'
                /\ telemetry'[ingestor_safe_topic_id(request'[p])] = ingested'[request'[p]]
          /\ (pc[p] = "walk" /\ request[p] # <<>> /\ ~overflow'[p]
               /\ responses'[p] # responses[p]) =>
                LET node == Running(p).nodes[current_node[p]]
                    e == results'[p][Len(results'[p])]
                IN (/\ node.type = "get_data"
                    /\ safe_topic_id(node.topic) = ingestor_safe_topic_id(request[p])
                    /\ responses'[p][Len(responses'[p])]) =>
                       /\ e.result = telemetry[safe_topic_id(node.topic)]
                       /\ e.result # None]_vars

\* The invocation requested for an immediate message on s/t with the value 35
\* read 35 at its GET_DATA node and published
C36_Witness ==
    /\ Ended("a") /\ request["a"] = Topic
    /\ Topic \in DOMAIN ingested /\ ingested[Topic] = IntV(35)
    /\ Len(results["a"]) = 3
    /\ results["a"][1].node_id = "g" /\ results["a"][1].result = IntV(35)
    /\ LastResult("a").triggered

\* The payload is a JSON object that has both 'value' and 'immediate'
ObjectWithFields(payload) == payload = "ok"

\* C37: the handling of a message whose payload is not JSON, is not an object,
\* or lacks 'value' or 'immediate' changes nothing: the store is as it was, and
\* no invocation of the evaluation endpoint is started or touched; and the
\* message after a dropped one is handled as any other: when it is well formed
\* and the store takes it, the store holds its value.
C37_MalformedMessageDropped ==
    [][/\ (received' # received /\ ~ObjectWithFields(received'[Len(received')])) =>
             UNCHANGED <<now, rules, telemetry, pc, snapshot, todo, selected, current_node,
                         execution_context, results, overflow, dispatched, responses,
                         status, ingested, request, out>>
       /\ (/\ received # <<>> /\ ~ObjectWithFields(received[Len(received)])
           /\ received' # received /\ ObjectWithFields(received'[Len(received')])
           /\ telemetry' # telemetry) =>
             /\ Topic \in DOMAIN ingested'
             /\ telemetry' = StoreMessage(telemetry, Topic, ingested'[Topic])]_vars

\* The first message was not JSON and was dropped; the one after it was well
\* formed and immediate: its value is in the store and the evaluation it
\* requested has started
C37_Witness ==
    /\ received = <<"not_json", "ok">>
    /\ Topic \in DOMAIN ingested /\ ingested[Topic] = IntV(35)
    /\ telemetry = StoreMessage([x \in {} |-> None], Topic, IntV(35))
    /\ request["a"] = Topic /\ pc["a"] = "select"

\* The Task objects create_task builds from its requests
TaskObjects ==
    {Task(id, dueDate, priority, completed) :
        id \in TaskIds, dueDate \in DueDates, priority \in Priorities, completed \in BOOLEAN}

\* The document records that complete_task succeeded on it
StoredCompleted(id) == tasks[id].has_completed /\ tasks[id].completed

\* C38: a task on which complete_task succeeded is read back with completed =
\* true by get_task and get_tasks and is counted under Completed by taskstats;
\* and every task whose document is the one create_task stored for it is
\* restored by Task.from_dict(t.to_dict()), completed included.
C38_CompletedIsReadBack ==
    /\ \A id \in DOMAIN tasks :
          StoredCompleted(id) =>
              /\ get_task(id).completed
              /\ \E t \in get_tasks : t.document_id = id /\ t.completed
    /\ get_task_stats.Completed = Cardinality({id \in DOMAIN tasks : StoredCompleted(id)})
    /\ \A t \in TaskObjects :
          (t.document_id \in DOMAIN tasks /\ tasks[t.document_id] = to_dict(t)) =>
              from_dict(to_dict(t)) = t
====
